---- MODULE Spec2Model ----
(***************************************************************************)
(* Readiness waits of the k8s_observebility command-line utilities.        *)
(*                                                                         *)
(* Each utility shells out to kubectl / kind / helm, polls their output    *)
(* for readiness keywords in a bounded retry loop and then continues (or   *)
(* fails) its workflow.  The model covers the six retry loops of the       *)
(* sources and the part of each enclosing workflow that reacts to the      *)
(* loop's outcome:                                                         *)
(*                                                                         *)
(*   verify_cluster_setup   setup_kind_cluster.rs            30 attempts   *)
(*   install_argocd         deploy_argocd.rs                 30 attempts   *)
(*   deploy_argocd_apps     deploy_observability_stack.rs    60 attempts   *)
(*   deploy_sample_apps     deploy_observability_stack.rs    30 attempts   *)
(*   deploy_stack           k8s_obs.rs                       60 attempts   *)
(*   setup_ingress          k8s_obs.rs                       30 attempts   *)
(***************************************************************************)
EXTENDS Integers, Sequences, FiniteSets, TLC

\* Longest command output, in lines, that a check may return.
MaxLines == 5

(***************************************************************************)
(* External commands.                                                      *)
(***************************************************************************)

\* STATUS column of a `kubectl get nodes --no-headers` line.
NodeLines == {"Ready", "NotReady"}

\* STATUS column of a `kubectl get pods --no-headers` line; the pods of the
\* argocd namespace include jobs that end as Completed.
PodLines == {"Running", "Pending"}

ArgoPodLines == {"Running", "Pending", "Completed"}

\* str::contains(needle) on one of the lines above: "NotReady" contains
\* "Ready"; every other status contains only itself; the empty line contains
\* none of the keywords.
Contains(line, needle) ==
    \/ line = needle
    \/ line = "NotReady" /\ needle = "Ready"

SeqsUpTo(S, n) == UNION {[1..k -> S] : k \in 0..n}

\* The six readiness waits, named by the function that holds the loop.
Waits == {"verify_cluster_setup", "install_argocd", "deploy_argocd_apps",
          "deploy_sample_apps", "deploy_stack", "setup_ingress"}

\* Standard output (already trimmed) that the check command of a wait may
\* print, as its sequence of lines.
Stdouts(w) ==
    CASE w = "verify_cluster_setup" -> SeqsUpTo(NodeLines, MaxLines)
      [] w = "install_argocd"       -> SeqsUpTo(ArgoPodLines, MaxLines)
      [] w = "deploy_argocd_apps"   -> {<<>>, <<"servicemonitors.monitoring.coreos.com">>}
      [] OTHER                      -> SeqsUpTo(PodLines, MaxLines)

\* What std::process::Command::output() may give for the check command of
\* wait w: the process could not be spawned, or it ran and left an exit
\* status and a standard output.
Outputs(w) ==
    {[spawned |-> FALSE, success |-> FALSE, stdout |-> <<>>]}
    \cup [spawned : {TRUE}, success : BOOLEAN, stdout : Stdouts(w)]

\* A command whose output is not inspected: spawn failure, non-zero, zero.
Runs == {[spawned |-> FALSE, success |-> FALSE],
         [spawned |-> TRUE,  success |-> FALSE],
         [spawned |-> TRUE,  success |-> TRUE]}

\* run_command that takes every non-zero status for an error.
run_command_always_checks(o, check) ==
    IF ~o.spawned THEN "Err"
    ELSE IF ~o.success THEN "Err"
    ELSE "Ok"

\* run_command(command, check) of the three deployer structs: Err when the
\* command cannot be spawned, Err when check is set and the status is
\* non-zero, Ok(output) otherwise.
run_command(o, check) ==
    IF ~o.spawned THEN "Err"
    ELSE IF check /\ ~o.success THEN "Err"
    ELSE "Ok"

\* run_command(cmd, description) of k8s_obs.rs: always checks the status.
k8s_obs_run_command(o) ==
    IF ~o.spawned THEN "Err"
    ELSE IF o.success THEN "Ok"
    ELSE "Err"

\* output_str.trim().split('\n').collect(): an empty output still gives one
\* (empty) element.
split_lines(stdout) == IF stdout = <<>> THEN <<"">> ELSE stdout

\* iter().filter(|l| l.contains(n1) || l.contains(n2) ..).count(), for the
\* set of needles {n1, n2, ..}
CountLines(ls, needles) ==
    Cardinality({i \in 1..Len(ls) : \E n \in needles : Contains(ls[i], n)})

(***************************************************************************)
(* The loops.                                                              *)
(***************************************************************************)

\* The attempt budget of each loop.
max_attempts(w) ==
    CASE w = "verify_cluster_setup" -> 30
      [] w = "install_argocd"       -> 30
      [] w = "deploy_argocd_apps"   -> 60
      [] w = "deploy_sample_apps"   -> 30
      [] w = "deploy_stack"         -> 60
      [] w = "setup_ingress"        -> 30

\* The readiness predicate each loop applies to the text of the output.
nodes_ready(stdout) ==
    LET nodes == split_lines(stdout)
    IN  Len(nodes) >= 3 /\ CountLines(nodes, {"Ready"}) >= 3

argocd_pods_ready(stdout) ==
    LET pods == split_lines(stdout)
    IN  Len(pods) >= 5 /\ CountLines(pods, {"Running", "Completed"}) >= 5

sample_pods_ready(stdout) ==
    LET pods == split_lines(stdout)
    IN  Len(pods) # 0 /\ CountLines(pods, {"Running"}) = Len(pods)

traefik_running(stdout) ==
    \E i \in 1..Len(stdout) : Contains(stdout[i], "Running")

\* The predicate over the output text alone; the CRD wait has none.
isReady(w, stdout) ==
    CASE w = "verify_cluster_setup" -> nodes_ready(stdout)
      [] w = "install_argocd"       -> argocd_pods_ready(stdout)
      [] w = "deploy_argocd_apps"   -> TRUE
      [] w = "deploy_sample_apps"   -> sample_pods_ready(stdout)
      [] w = "deploy_stack"         -> traefik_running(stdout)
      [] w = "setup_ingress"        -> traefik_running(stdout)

\* Whether the loop tests the exit status of its check command before it
\* accepts the output: only the Traefik loop of deploy_stack does.  The
\* others call run_command(.., false) or look at stdout of any Ok(output).
tests_exit_status(w) == w = "deploy_stack"

\* loop_ready with the exit status test of deploy_stack inverted.
loop_ready_inverted_status(w, o) ==
    /\ o.spawned
    /\ tests_exit_status(w) => ~o.success
    /\ isReady(w, o.stdout)

\* loop_ready with the Err arm of the match leaving the loop as well.
loop_ready_err_breaks(w, o) ==
    \/ ~o.spawned
    \/ /\ tests_exit_status(w) => o.success
       /\ isReady(w, o.stdout)

\* The decision of one loop iteration: does the loop leave as ready?
loop_ready(w, o) ==
    /\ o.spawned
    /\ tests_exit_status(w) => o.success
    /\ isReady(w, o.stdout)

\* loop_condition with `<=` for `<`.
loop_condition_off_by_one(w, a) == a <= max_attempts(w)

\* The loop condition `while attempt < max_attempts`.
loop_condition(w, a) == a < max_attempts(w)

\* sleeps_first with the sleep of setup_ingress moved below its check.
sleeps_first_deploy_stack_only(w) == w = "deploy_stack"

\* Loops that sleep at the top of the body, before the check.
sleeps_first(w) == w \in {"deploy_stack", "setup_ingress"}

\* Loops that sleep at the bottom of the body after every failed attempt,
\* before the loop condition is evaluated again.
sleeps_last(w) == w \in {"verify_cluster_setup", "install_argocd", "deploy_sample_apps"}

\* The loop prints a progress line after the failed attempt that makes
\* its counter a.
progress_line_every_sixth(w, a) == a % 6 = 0

progress_line(w, a) ==
    CASE w \in {"verify_cluster_setup", "install_argocd", "deploy_sample_apps"}
             -> TRUE
      [] w = "deploy_argocd_apps" -> a < max_attempts(w)
      [] w = "deploy_stack" -> a % 12 = 0
      [] w = "setup_ingress" -> a % 6 = 0

\* The nodes that `kubectl get nodes --no-headers` reports in state Ready:
\* the lines whose status is Ready, none when the command gave no listing.
nodes_in_state_ready(o) ==
    IF o.spawned
    THEN Cardinality({i \in DOMAIN o.stdout : o.stdout[i] = "Ready"})
    ELSE 0

(***************************************************************************)
(* State.                                                                  *)
(***************************************************************************)

Progs == {"setup_kind_cluster", "deploy_argocd", "deploy_observability_stack",
          "k8s_obs deploy-stack", "k8s_obs setup-ingress", "k8s_obs dev-setup",
          "k8s_obs quick-start", "cleanup"}

VARIABLES
    prog,        \* the command that runs
    pc,          \* its position
    wait,        \* the loop being (or last) executed, "none" before any
    attempt,     \* the loop counter `attempt` / `attempts`
    checks,      \* invocations of the check command by this loop
    sleeps,      \* sleeps taken by this loop
    outcome,     \* "none", "Polling", "Ready", "TimedOut"
    last,        \* the latest check: spawned, exit status, predicate on text
    firstReady,  \* number of the first invocation that succeeded with the
                 \* predicate true in this loop, 0 if none yet
    history,     \* the finished loops of this process, oldest first
    ran,         \* workflow steps started and commands run outside the checks
    printed,     \* messages printed
    exit,        \* the exit status of the process, Running until it ends
    progress_lines, \* "... (Attempt k/N)" / "Still waiting ..." lines
                 \* printed by this loop
    ready_nodes, \* lines of the latest `kubectl get nodes --no-headers` of
                 \* verify_cluster_setup whose node status is Ready
    env,         \* directories this process has prepended to PATH
    calls,       \* the commands run by check_prerequisites and by
                 \* install_helm, and the steps of quick_start, in order,
                 \* with their results
    input,       \* cleanup: the line read from standard input, a sequence
                 \* of characters, <<>> before the read
    commands,    \* cleanup: external commands run so far
    failed       \* cleanup: how many of them could not be spawned or
                 \* exited non-zero

vars == <<prog, pc, wait, attempt, checks, sleeps, outcome, last, firstReady,
          history, ran, printed, exit, progress_lines, ready_nodes, env, calls,
          input, commands, failed>>

cleanupvars == <<input, commands, failed>>

waitvars == <<wait, attempt, checks, sleeps, outcome, last, firstReady, history,
              progress_lines, ready_nodes>>

\* The process has not exited yet.
Running == -1

NoCheck == [spawned |-> FALSE, success |-> FALSE, matched |-> FALSE]

\* The record of one run_command(cmd, check) whose process ended as o.
Call(cmd, o, check) ==
    [cmd |-> cmd, by |-> "run_command", spawned |-> o.spawned,
     success |-> o.success, check |-> check, result |-> run_command(o, check)]

\* quick_start: the record of one step that returned result, added to the
\* steps so far; the other commands keep no such record.
Step(name, result) ==
    IF prog = "k8s_obs quick-start"
    THEN Append(calls, [cmd |-> name, by |-> "quick_start", result |-> result])
    ELSE calls

\* The record of one `Command::new("cmd").args(["/C", cmd]).output()`: Ok
\* whenever the process was spawned.
Lookup(cmd, o) ==
    [cmd |-> cmd, by |-> "Command::output", spawned |-> o.spawned,
     success |-> o.success, check |-> FALSE,
     result |-> IF o.spawned THEN "Ok" ELSE "Err"]

Init ==
    /\ prog \in Progs
    /\ pc = "start"
    /\ wait = "none"
    /\ attempt = 0
    /\ checks = 0
    /\ sleeps = 0
    /\ outcome = "none"
    /\ last = NoCheck
    /\ firstReady = 0
    /\ history = <<>>
    /\ ran = {}
    /\ printed = {}
    /\ exit = Running
    /\ progress_lines = 0
    /\ ready_nodes = 0
    /\ env = {}
    /\ calls = <<>>
    /\ input = <<>>
    /\ commands = 0
    /\ failed = 0

\* The process ends with the given status.
Exit(code) ==
    /\ pc' = "done"
    /\ exit' = code

\* A loop that goes on counting where the loop before it stopped.
EnterLoop_keeps_counter(w) ==
    /\ wait' = w
    /\ attempt' = attempt
    /\ checks' = 0
    /\ sleeps' = 0
    /\ outcome' = "Polling"
    /\ last' = NoCheck
    /\ firstReady' = 0
    /\ progress_lines' = 0
    /\ ready_nodes' = 0
    /\ pc' = IF sleeps_first(w) THEN "sleep" ELSE "check"
    /\ UNCHANGED <<history, exit>>

\* `let mut attempt = 0; while attempt < max_attempts {`
EnterLoop(w) ==
    /\ wait' = w
    /\ attempt' = 0
    /\ checks' = 0
    /\ sleeps' = 0
    /\ outcome' = "Polling"
    /\ last' = NoCheck
    /\ firstReady' = 0
    /\ progress_lines' = 0
    /\ ready_nodes' = 0
    /\ pc' = IF sleeps_first(w) THEN "sleep" ELSE "check"
    /\ UNCHANGED <<history, exit>>

\* The loop is left with outcome oc after c checks and s sleeps, the first
\* successful and matching check being number f (0: none).
LeaveLoop(oc, c, s, f) ==
    /\ outcome' = oc
    /\ history' = Append(history, [wait |-> wait, outcome |-> oc,
                                   checks |-> c, sleeps |-> s,
                                   firstReady |-> f])
    /\ pc' = "after"

(***************************************************************************)
(* One iteration of a loop: the check.                                     *)
(***************************************************************************)
Check ==
    /\ pc = "check"
    /\ \E o \in Outputs(wait) :
        LET matched == o.spawned /\ isReady(wait, o.stdout)
            c == checks + 1
            f == IF firstReady = 0 /\ o.success /\ matched THEN c ELSE firstReady
        IN  /\ checks' = c
            /\ last' = [spawned |-> o.spawned, success |-> o.success,
                        matched |-> matched]
            /\ firstReady' = f
            /\ ready_nodes' = IF wait = "verify_cluster_setup"
                              THEN nodes_in_state_ready(o)
                              ELSE ready_nodes
            /\ IF loop_ready(wait, o)
               THEN \* break / return Ok(true)
                    /\ LeaveLoop("Ready", c, sleeps, f)
                    /\ UNCHANGED <<attempt, sleeps, progress_lines>>
               ELSE \* attempt += 1
                    /\ attempt' = attempt + 1
                    /\ progress_lines' = progress_lines +
                          (IF progress_line(wait, attempt + 1) THEN 1 ELSE 0)
                    /\ UNCHANGED sleeps
                    /\ IF sleeps_last(wait) \/ loop_condition(wait, attempt + 1)
                       THEN /\ pc' = "sleep"
                            /\ UNCHANGED <<outcome, history>>
                       ELSE LeaveLoop("TimedOut", c, sleeps, f)
    /\ UNCHANGED <<prog, cleanupvars, wait, ran, printed, exit, env, calls>>

(***************************************************************************)
(* One iteration of a loop: the sleep.                                     *)
(***************************************************************************)
Sleep ==
    /\ pc = "sleep"
    /\ sleeps' = sleeps + 1
    /\ IF sleeps_first(wait) \/ loop_condition(wait, attempt)
       THEN /\ pc' = "check"
            /\ UNCHANGED <<outcome, history>>
       ELSE LeaveLoop("TimedOut", checks, sleeps + 1, firstReady)
    /\ UNCHANGED <<prog, cleanupvars, wait, attempt, checks, last, firstReady, ran, printed,
                   exit, progress_lines, ready_nodes, env, calls>>

(***************************************************************************)
(* setup_kind_cluster: setup() has created the cluster and calls           *)
(* verify_cluster_setup.                                                   *)
(***************************************************************************)
setup_begin ==
    /\ prog = "setup_kind_cluster" /\ pc = "start"
    /\ \E docker \in Runs, kind \in Runs, download \in {"Ok", "Err"},
          config \in {"Ok", "Err"}, create \in Runs :
        LET install == run_command(kind, FALSE) = "Err"
        IN  IF run_command(docker, FALSE) = "Err"
            THEN /\ printed' = printed \cup {"Docker is not running"}
                 /\ UNCHANGED env
                 /\ Exit(1)
            ELSE IF install /\ download = "Err"
            THEN /\ UNCHANGED <<printed, env>>
                 /\ Exit(1)
            ELSE /\ env' = IF install THEN env \cup {"."} ELSE env
                 /\ UNCHANGED printed
                 /\ IF config = "Ok" /\ create.spawned /\ create.success
                    THEN pc' = "verify_cluster_setup" /\ UNCHANGED exit
                    ELSE Exit(1)
    /\ UNCHANGED <<prog, cleanupvars, waitvars, ran, calls>>

\* verify_cluster_setup exports the kubeconfig and enters its loop.
verify_cluster_setup_begin ==
    /\ prog = "setup_kind_cluster" /\ pc = "verify_cluster_setup"
    /\ \E export \in Runs :
        IF run_command(export, FALSE) = "Err"
        THEN Exit(1) /\ UNCHANGED waitvars
        ELSE EnterLoop("verify_cluster_setup")
    /\ UNCHANGED <<prog, cleanupvars, ran, printed, env, calls>>

\* The end of verify_cluster_setup and what setup() and main() make of it.
verify_cluster_setup_end ==
    /\ prog = "setup_kind_cluster" /\ pc = "after"
    /\ \E nodes \in Runs :
        IF outcome = "Ready"
        THEN IF run_command(nodes, TRUE) = "Err"
             THEN /\ printed' = printed \cup {"All nodes are ready!"}
                  /\ ran' = ran \cup {"kubectl get nodes"}
                  /\ Exit(1)
             ELSE /\ ran' = ran \cup {"kubectl get nodes", "install_helm"}
                  /\ printed' = printed \cup {"All nodes are ready!",
                                   "Kind cluster setup completed successfully!"}
                  /\ pc' = "install_helm"
                  /\ UNCHANGED exit
        ELSE /\ printed' = printed \cup {"Cluster verification failed",
                                         "Cluster setup failed"}
             /\ ran' = ran \cup {"kubectl get nodes"}
             /\ Exit(1)
    /\ UNCHANGED <<prog, cleanupvars, waitvars, env, calls>>

\* The installers of install_helm, in the order they are tried.
install_commands == <<"winget install", "choco install", "scoop install">>

\* install_helm, one turn of `for command in install_commands`: the next
\* installer is run; Ok ends install_helm, and setup() goes on to the final
\* verification and ends.
install_helm ==
    /\ prog = "setup_kind_cluster" /\ pc = "install_helm"
    /\ \E o \in Runs :
        LET i == Len(calls) + 1
            c == Call(install_commands[i], o, FALSE)
        IN  /\ calls' = Append(calls, c)
            /\ IF c.result = "Ok"
               THEN /\ printed' = printed \cup {"Helm installed successfully"}
                    /\ ran' = ran \cup {"final verification"}
                    /\ Exit(0)
               ELSE /\ pc' = IF i < Len(install_commands)
                             THEN "install_helm" ELSE "download_helm"
                    /\ UNCHANGED <<printed, ran, exit>>
    /\ UNCHANGED <<prog, cleanupvars, waitvars, env>>

\* install_helm after the three installers: the direct download, then the
\* final verification and the end of setup().
download_helm ==
    /\ prog = "setup_kind_cluster" /\ pc = "download_helm"
    /\ \E download \in {"Ok", "Err"}, tar \in Runs, rename \in {"Ok", "Err"},
          version \in Runs :
        LET extracted == download = "Ok" /\ run_command(tar, FALSE) = "Ok"
            moved == extracted /\ rename = "Ok"
            result == IF moved THEN run_command(version, TRUE) ELSE "Err"
        IN  /\ calls' = calls
                  \o (IF download = "Ok"
                      THEN <<Call("tar -xzf helm.tar.gz", tar, FALSE)>> ELSE <<>>)
                  \o (IF moved
                      THEN <<Call("helm version", version, TRUE)>> ELSE <<>>)
            /\ env' = IF moved THEN env \cup {"./bin"} ELSE env
            /\ ran' = ran \cup {"download helm"}
                          \cup (IF result = "Ok" THEN {"final verification"} ELSE {})
            /\ printed' = printed \cup
                  (IF result = "Ok" THEN {"Helm installed successfully"} ELSE {})
            /\ Exit(IF result = "Ok" THEN 0 ELSE 1)
    /\ UNCHANGED <<prog, cleanupvars, waitvars>>

(***************************************************************************)
(* deploy_argocd: deploy() has checked the prerequisites and calls         *)
(* install_argocd.                                                         *)
(***************************************************************************)
check_prerequisites ==
    /\ prog = "deploy_argocd" /\ pc = "start"
    /\ \E kubectl \in Runs, helm \in Runs, context \in {"Ok", "Err"},
          nodes \in Runs :
        LET c1 == Call("kubectl version --client", kubectl, FALSE)
            c2 == Call("helm version", helm, FALSE)
            c3 == Call("kubectl get nodes", nodes, FALSE)
        IN  IF c1.result = "Err"
            THEN /\ calls' = <<c1>>
                 /\ printed' = printed \cup {"kubectl is not available"}
                 /\ Exit(1)
            ELSE IF c2.result = "Err"
            THEN /\ calls' = <<c1, c2>>
                 /\ printed' = printed \cup {"Helm is not available"}
                 /\ Exit(1)
            ELSE IF context = "Err"
            THEN /\ calls' = <<c1, c2>>
                 /\ UNCHANGED printed
                 /\ Exit(1)
            ELSE IF c3.result = "Err"
            THEN /\ calls' = <<c1, c2, c3>>
                 /\ printed' = printed \cup {"Cannot access Kubernetes cluster"}
                 /\ Exit(1)
            ELSE /\ calls' = <<c1, c2, c3>>
                 /\ UNCHANGED <<printed, exit>>
                 /\ pc' = "install_argocd"
    /\ UNCHANGED <<prog, cleanupvars, waitvars, ran, env>>

\* install_argocd: the context, the Helm repository and chart, then the loop.
install_argocd_begin ==
    /\ prog = "deploy_argocd" /\ pc = "install_argocd"
    /\ \E context \in {"Ok", "Err"}, repo_add \in Runs, repo_update \in Runs,
          install \in Runs :
        /\ ran' = ran \cup (IF context = "Ok" THEN {"helm repo add"} ELSE {})
        /\ IF \/ context = "Err"
              \/ run_command(repo_add, TRUE) = "Err"
              \/ run_command(repo_update, TRUE) = "Err"
              \/ run_command(install, TRUE) = "Err"
           THEN Exit(1) /\ UNCHANGED waitvars
           ELSE EnterLoop("install_argocd")
    /\ UNCHANGED <<prog, cleanupvars, printed, env, calls>>

\* The end of install_argocd, whatever way the loop was left, and the rest
\* of deploy().
install_argocd_end ==
    /\ prog = "deploy_argocd" /\ pc = "after"
    /\ \E forward \in {"Ok", "Err"} :
        /\ ran' = ran \cup {"setup_port_forwarding"}
                      \cup (IF forward = "Ok" THEN {"get_service_urls"} ELSE {})
        /\ printed' = printed \cup {"ArgoCD installed successfully"}
                      \cup (IF forward = "Ok" THEN {"ArgoCD deployed successfully!"} ELSE {})
        /\ Exit(IF forward = "Ok" THEN 0 ELSE 1)
    /\ UNCHANGED <<prog, cleanupvars, waitvars, env, calls>>

(***************************************************************************)
(* deploy_observability_stack: deploy() has checked the prerequisites and  *)
(* calls deploy_argocd_apps, then deploy_sample_apps.                      *)
(***************************************************************************)
\* deploy() that goes to deploy_sample_apps without deploy_argocd_apps.
deploy_sample_apps_first ==
    /\ prog = "deploy_observability_stack" /\ pc = "start"
    /\ \E namespace \in Runs, kustomize \in Runs :
        IF \/ run_command(namespace, FALSE) = "Err"
           \/ run_command(kustomize, TRUE) = "Err"
        THEN Exit(1) /\ UNCHANGED waitvars
        ELSE EnterLoop("deploy_sample_apps")
    /\ UNCHANGED <<prog, cleanupvars, ran, printed, env, calls>>

deploy_argocd_apps_begin ==
    /\ prog = "deploy_observability_stack" /\ pc = "start"
    /\ \E namespace \in Runs, kustomize \in Runs :
        IF \/ run_command(namespace, FALSE) = "Err"
           \/ run_command(kustomize, TRUE) = "Err"
        THEN Exit(1) /\ UNCHANGED waitvars
        ELSE EnterLoop("deploy_argocd_apps")
    /\ UNCHANGED <<prog, cleanupvars, ran, printed, env, calls>>

\* The end of deploy_argocd_apps; on Ok(()) deploy() calls
\* deploy_sample_apps, which applies the manifests and enters its loop.
deploy_argocd_apps_end ==
    /\ prog = "deploy_observability_stack" /\ pc = "after"
    /\ wait = "deploy_argocd_apps"
    /\ IF outcome = "TimedOut"
       THEN /\ printed' = printed \cup {"Timeout waiting for CRDs to be available"}
            /\ UNCHANGED ran
            /\ Exit(1) /\ UNCHANGED waitvars
       ELSE /\ printed' = printed \cup {"ServiceMonitor CRD is available"}
            /\ ran' = ran \cup {"deploy_sample_apps"}
            /\ \E namespace \in Runs, apply \in Runs :
                IF \/ run_command(namespace, FALSE) = "Err"
                   \/ run_command(apply, TRUE) = "Err"
                THEN Exit(1) /\ UNCHANGED waitvars
                ELSE EnterLoop("deploy_sample_apps")
    /\ UNCHANGED <<prog, cleanupvars, env, calls>>

\* The end of deploy_sample_apps, whatever way the loop was left, and the
\* rest of deploy().
deploy_sample_apps_end ==
    /\ prog = "deploy_observability_stack" /\ pc = "after"
    /\ wait = "deploy_sample_apps"
    /\ ran' = ran \cup {"get_service_urls"}
    /\ printed' = printed \cup {"Observability Stack Deployment Completed Successfully!"}
    /\ Exit(0)
    /\ UNCHANGED <<prog, cleanupvars, waitvars, env, calls>>

(***************************************************************************)
(* k8s_obs: deploy_stack, as the deploy-stack command or called from       *)
(* setup_ingress.                                                          *)
(***************************************************************************)
deploy_stack_begin ==
    /\ \/ prog = "k8s_obs deploy-stack" /\ pc = "start"
       \/ prog \in {"k8s_obs setup-ingress", "k8s_obs quick-start"}
          /\ pc = "deploy_stack"
    /\ \E namespace \in Runs, kustomize \in Runs :
        IF \/ k8s_obs_run_command(namespace) = "Err"
           \/ k8s_obs_run_command(kustomize) = "Err"
        THEN /\ calls' = Step("deploy_stack", "Err")
             /\ Exit(1) /\ UNCHANGED waitvars
        ELSE /\ UNCHANGED calls
             /\ EnterLoop("deploy_stack")
    /\ UNCHANGED <<prog, cleanupvars, ran, printed, env>>

\* The rest of deploy_stack once the loop is left, whatever way.
deploy_stack_end ==
    /\ pc = "after" /\ wait = "deploy_stack"
    /\ ran' = ran \cup {"apply observability-ingress.yaml"}
    /\ \E apply \in Runs :
        IF k8s_obs_run_command(apply) = "Err"
        THEN /\ UNCHANGED printed
             /\ calls' = Step("deploy_stack", "Err")
             /\ Exit(1)
        ELSE /\ printed' = printed \cup {"Observability stack deployment complete"}
             /\ calls' = Step("deploy_stack", "Ok")
             /\ IF prog = "k8s_obs deploy-stack"
                THEN Exit(0)
                ELSE /\ pc' = IF prog = "k8s_obs quick-start"
                              THEN "deploy_sample_apps" ELSE "ingress_check"
                     /\ UNCHANGED exit
    /\ UNCHANGED <<prog, cleanupvars, waitvars, env>>

(***************************************************************************)
(* k8s_obs: setup_ingress.                                                 *)
(***************************************************************************)
\* The first Traefik check: running, not yet running (wait), or not
\* checkable (deploy the stack first).
setup_ingress_begin ==
    /\ prog = "k8s_obs setup-ingress" /\ pc = "start"
    /\ \E o \in Outputs("setup_ingress") :
        IF o.spawned /\ o.success
        THEN IF traefik_running(o.stdout)
             THEN pc' = "ingress_check" /\ UNCHANGED <<waitvars, exit>>
             ELSE EnterLoop("setup_ingress")
        ELSE pc' = "deploy_stack" /\ UNCHANGED <<waitvars, exit>>
    /\ UNCHANGED <<prog, cleanupvars, ran, printed, env, calls>>

\* The loop of setup_ingress is left, whatever way: on to the ingress check.
setup_ingress_waited ==
    /\ prog = "k8s_obs setup-ingress" /\ pc = "after" /\ wait = "setup_ingress"
    /\ pc' = "ingress_check"
    /\ UNCHANGED <<prog, cleanupvars, waitvars, ran, printed, exit, env, calls>>

\* The ingress check, the hosts file and the access information.
setup_ingress_end ==
    /\ prog = "k8s_obs setup-ingress" /\ pc = "ingress_check"
    /\ \E ingress \in Runs, apply \in Runs, hosts \in {"Ok", "Err"} :
        LET found == ingress.spawned /\ ingress.success
            applied == found \/ k8s_obs_run_command(apply) = "Ok"
        IN  /\ ran' = ran \cup {"ingress check"}
                      \cup (IF found THEN {} ELSE {"apply observability-ingress.yaml"})
                      \cup (IF applied THEN {"setup_hosts_file"} ELSE {})
            /\ printed' = printed \cup
                  (IF applied /\ hosts = "Ok" THEN {"Ingress Access Information"} ELSE {})
            /\ Exit(IF applied /\ hosts = "Ok" THEN 0 ELSE 1)
    /\ UNCHANGED <<prog, cleanupvars, waitvars, env, calls>>

(***************************************************************************)
(* k8s_obs dev-setup.                                                      *)
(***************************************************************************)
tools == <<"where kubectl", "where kind", "where docker">>

\* check_prerequisites of k8s_obs: one lookup per tool, the first that
\* returns Err ends the command.
k8s_obs_check_prerequisites ==
    /\ prog = "k8s_obs dev-setup" /\ pc = "start"
    /\ \E rs \in [1..3 -> Runs] :
        LET err == {i \in 1..3 : Lookup(tools[i], rs[i]).result = "Err"}
            done == IF err = {} THEN 3
                    ELSE CHOOSE i \in err : \A j \in err : i <= j
        IN  /\ calls' = [i \in 1..done |-> Lookup(tools[i], rs[i])]
            /\ IF err = {}
               THEN /\ printed' = printed \cup {"All prerequisites are satisfied"}
                    /\ pc' = "check_binaries"
                    /\ UNCHANGED exit
               ELSE /\ printed' = printed \cup {"Missing prerequisite"}
                    /\ Exit(1)
    /\ UNCHANGED <<prog, cleanupvars, waitvars, ran, env>>

\* check_binaries: bin/setup_kind_cluster.exe exists or the command ends.
check_binaries ==
    /\ prog = "k8s_obs dev-setup" /\ pc = "check_binaries"
    /\ \E found \in BOOLEAN :
        IF found
        THEN pc' = "setup_cluster" /\ UNCHANGED exit
        ELSE Exit(1)
    /\ UNCHANGED <<prog, cleanupvars, waitvars, ran, printed, env, calls>>

\* setup_cluster: a healthy existing cluster is kept, otherwise
\* bin\setup_kind_cluster.exe runs.
setup_cluster ==
    /\ \/ prog = "k8s_obs dev-setup" /\ pc = "setup_cluster"
       \/ prog = "k8s_obs quick-start" /\ pc = "start"
    /\ \E found \in BOOLEAN, healthy \in BOOLEAN, setup \in Runs :
        /\ ran' = ran \cup {"setup_cluster"}
        /\ IF found /\ (healthy \/ k8s_obs_run_command(setup) = "Ok")
           THEN /\ pc' = "deploy_argocd"
                /\ calls' = Step("setup_cluster", "Ok")
                /\ UNCHANGED exit
           ELSE /\ calls' = Step("setup_cluster", "Err")
                /\ Exit(1)
    /\ UNCHANGED <<prog, cleanupvars, waitvars, printed, env>>

\* deploy_argocd of k8s_obs: a running ArgoCD is kept, otherwise
\* bin\deploy_argocd.exe runs; then dev_setup ends and quick_start goes on
\* to deploy_stack.
k8s_obs_deploy_argocd ==
    /\ prog \in {"k8s_obs dev-setup", "k8s_obs quick-start"}
    /\ pc = "deploy_argocd"
    /\ \E found \in BOOLEAN, running \in BOOLEAN, deploy \in Runs :
        /\ ran' = ran \cup {"deploy_argocd"}
        /\ IF found /\ (running \/ k8s_obs_run_command(deploy) = "Ok")
           THEN /\ calls' = Step("deploy_argocd", "Ok")
                /\ IF prog = "k8s_obs dev-setup"
                   THEN /\ printed' = printed \cup {"Development environment ready"}
                        /\ Exit(0)
                   ELSE /\ pc' = "deploy_stack"
                        /\ UNCHANGED <<printed, exit>>
           ELSE /\ calls' = Step("deploy_argocd", "Err")
                /\ UNCHANGED printed
                /\ Exit(1)
    /\ UNCHANGED <<prog, cleanupvars, waitvars, env>>

(***************************************************************************)
(* cleanup.                                                                *)
(***************************************************************************)

\* Longest answer, in characters before the line end, typed at the prompt.
MaxInput == 2

\* The characters of an answer.
Chars == {"y", "Y", "n", " "}

\* What read_line can return: the characters typed and the line end, if any.
Lines ==
    {body \o end : body \in SeqsUpTo(Chars, MaxInput),
                   end \in {<<>>, <<"\n">>, <<"\r", "\n">>}}

\* char::is_whitespace on the characters above.
is_whitespace(c) == c \in {" ", "\n", "\r", "\t"}

\* str::trim_start, str::trim_end and str::trim.
RECURSIVE trim_start(_)
trim_start(s) ==
    IF s # <<>> /\ is_whitespace(Head(s)) THEN trim_start(Tail(s)) ELSE s

RECURSIVE trim_end(_)
trim_end(s) ==
    IF s # <<>> /\ is_whitespace(s[Len(s)])
    THEN trim_end(SubSeq(s, 1, Len(s) - 1))
    ELSE s

trim(s) == trim_end(trim_start(s))

\* str::to_lowercase.
to_lowercase(s) ==
    [i \in DOMAIN s |-> CASE s[i] = "Y" -> "y"
                          [] s[i] = "N" -> "n"
                          [] OTHER -> s[i]]

\* An answer that begins with y counts as a yes.
confirmed_by_first_letter(line) ==
    LET a == to_lowercase(trim(line)) IN a # <<>> /\ a[1] = "y"

\* `input.trim().to_lowercase() != "y"` is false.
confirmed(line) == to_lowercase(trim(line)) = <<"y">>

\* deploy_sample_apps of k8s_obs: the namespace, then the manifests, each
\* with `?`.
deploy_sample_apps_result(namespace, apply) ==
    IF k8s_obs_run_command(namespace) = "Err" THEN "Err"
    ELSE k8s_obs_run_command(apply)

\* quick_start that goes on whatever the step returned.
goes_on_always(result) == TRUE

\* `step()?;` in quick_start: it goes on when the step returned Ok.
goes_on(result) == result = "Ok"

\* The last step of quick_start, and its end.
k8s_obs_deploy_sample_apps ==
    /\ prog = "k8s_obs quick-start" /\ pc = "deploy_sample_apps"
    /\ \E namespace \in Runs, apply \in Runs :
        LET result == deploy_sample_apps_result(namespace, apply)
        IN  /\ ran' = ran \cup {"deploy_sample_apps"}
            /\ calls' = Step("deploy_sample_apps", result)
            /\ IF goes_on(result)
               THEN /\ printed' = printed \cup {"Quick start complete!"}
                    /\ Exit(0)
               ELSE /\ UNCHANGED printed
                    /\ Exit(1)
    /\ UNCHANGED <<prog, cleanupvars, waitvars, env>>

\* The prompt of cleanup() and the answer.
cleanup_confirm ==
    /\ prog = "cleanup" /\ pc = "start"
    /\ \E read \in {"Ok", "Err"} :
        IF read = "Err"
        THEN /\ UNCHANGED <<input, ran, printed>>
             /\ Exit(1)
        ELSE \E line \in Lines :
             /\ input' = line
             /\ ran' = ran \cup {"read_line"}
             /\ IF confirmed(line)
                THEN /\ pc' = "uninstall_helm_releases"
                     /\ UNCHANGED <<printed, exit>>
                ELSE /\ printed' = printed \cup {"Cleanup cancelled"}
                     /\ Exit(0)
    /\ UNCHANGED <<prog, waitvars, env, calls, commands, failed>>

\* The commands among rs that could not be spawned or exited non-zero.
Failures(rs) == Cardinality({i \in DOMAIN rs : ~(rs[i].spawned /\ rs[i].success)})

\* A result that is not dropped but returned with `?`.
propagated(result) == result

\* `let _ = result;` and `result.ok();`: the result is dropped.
ignored(result) == "Ok"

\* A phase that runs the commands rs with check false, one after the other,
\* ignores their results and returns Ok(()): the position after it.
after_commands(rs, next) ==
    /\ commands' = commands + Len(rs)
    /\ failed' = failed + Failures(rs)
    /\ IF \A i \in DOMAIN rs : ignored(run_command(rs[i], FALSE)) = "Ok"
       THEN pc' = next /\ UNCHANGED exit
       ELSE Exit(1)

\* kind export kubeconfig, kubectl config set-cluster, three helm uninstall.
uninstall_helm_releases ==
    /\ prog = "cleanup" /\ pc = "uninstall_helm_releases"
    /\ ran' = ran \cup {"uninstall_helm_releases"}
    /\ \E rs \in [1..5 -> Runs] : after_commands(rs, "remove_kubernetes_resources")
    /\ UNCHANGED <<prog, waitvars, env, calls, input, printed>>

\* kind export kubeconfig, kubectl config set-cluster, kubectl delete
\* namespace.
remove_kubernetes_resources ==
    /\ prog = "cleanup" /\ pc = "remove_kubernetes_resources"
    /\ ran' = ran \cup {"remove_kubernetes_resources"}
    /\ \E rs \in [1..3 -> Runs] : after_commands(rs, "remove_kind_cluster")
    /\ UNCHANGED <<prog, waitvars, env, calls, input, printed>>

\* kind delete cluster, kubectl config delete-context, delete-cluster,
\* delete-user.
remove_kind_cluster ==
    /\ prog = "cleanup" /\ pc = "remove_kind_cluster"
    /\ ran' = ran \cup {"remove_kind_cluster"}
    /\ \E rs \in [1..4 -> Runs] : after_commands(rs, "remove_local_files")
    /\ UNCHANGED <<prog, waitvars, env, calls, input, printed>>

\* The local files and the ./helm directory, then the end of cleanup().
remove_local_files ==
    /\ prog = "cleanup" /\ pc = "remove_local_files"
    /\ ran' = ran \cup {"remove_local_files"}
    /\ \E removal \in {"Ok", "Err"} :
        IF removal = "Ok"
        THEN /\ printed' = printed \cup {"Cleanup completed successfully!"}
             /\ Exit(0)
        ELSE /\ UNCHANGED printed
             /\ Exit(1)
    /\ UNCHANGED <<prog, waitvars, env, calls, cleanupvars>>

Next ==
    \/ Check
    \/ Sleep
    \/ setup_begin
    \/ verify_cluster_setup_begin
    \/ verify_cluster_setup_end
    \/ install_helm
    \/ download_helm
    \/ check_prerequisites
    \/ k8s_obs_check_prerequisites
    \/ check_binaries
    \/ setup_cluster
    \/ k8s_obs_deploy_argocd
    \/ install_argocd_begin
    \/ k8s_obs_deploy_sample_apps
    \/ cleanup_confirm
    \/ uninstall_helm_releases
    \/ remove_kubernetes_resources
    \/ remove_kind_cluster
    \/ remove_local_files
    \/ install_argocd_end
    \/ deploy_argocd_apps_begin
    \/ deploy_argocd_apps_end
    \/ deploy_sample_apps_end
    \/ deploy_stack_begin
    \/ deploy_stack_end
    \/ setup_ingress_begin
    \/ setup_ingress_waited
    \/ setup_ingress_end

Spec == Init /\ [][Next]_vars

\* Every check command and every sleep returns, and the process keeps
\* running until it exits.
FairSpec == Spec /\ WF_vars(Next)

TypeOK ==
    /\ prog \in Progs
    /\ pc \in {"start", "check", "sleep", "after", "deploy_stack", "ingress_check",
             "verify_cluster_setup", "install_helm", "download_helm",
             "install_argocd",
             "check_binaries", "setup_cluster", "deploy_argocd",
             "deploy_sample_apps", "uninstall_helm_releases",
             "remove_kubernetes_resources", "remove_kind_cluster",
             "remove_local_files", "done"}
    /\ wait \in Waits \cup {"none"}
    /\ attempt \in 0..60 /\ checks \in 0..60 /\ sleeps \in 0..60
    /\ outcome \in {"none", "Polling", "Ready", "TimedOut"}
    /\ firstReady \in 0..60
    /\ Len(history) <= 2
    /\ exit \in {Running, 0, 1}
    /\ progress_lines \in 0..60
    /\ ready_nodes \in 0..MaxLines
    /\ env \subseteq {".", "./bin"}
    /\ Len(calls) <= 5
    /\ input \in Lines
    /\ commands \in 0..12
    /\ failed \in 0..commands

(***************************************************************************)
(* Properties.                                                             *)
(***************************************************************************)

\* A loop has finished.
Ended == outcome \in {"Ready", "TimedOut", "Fatal"}

\* The latest check ran but did not succeed with the predicate true.
TransientFailure(c) == c.spawned /\ ~(c.success /\ c.matched)

\* C1: a wait none of whose check invocations was ready (succeeded with the
\* predicate true) invokes the check exactly max_attempts times, never more
\* and never fewer, and ends as TimedOut.
C1_NeverReadyExactlyN ==
    (wait # "none" /\ firstReady = 0) =>
        /\ checks <= max_attempts(wait)
        /\ Ended => (outcome = "TimedOut" /\ checks = max_attempts(wait))

\* C2: a wait whose check is first ready (succeeded with the predicate true)
\* on invocation k has ended as Ready with exactly k invocations, k within the
\* budget, and stays so: in the running loop and in every finished one.
C2_ReadyAtK ==
    /\ firstReady > 0 =>
          /\ outcome = "Ready"
          /\ checks = firstReady
          /\ firstReady <= max_attempts(wait)
    /\ \A i \in 1..Len(history) :
          history[i].firstReady > 0 =>
              /\ history[i].outcome = "Ready"
              /\ history[i].checks = history[i].firstReady

\* C2 witness: a wait that was not ready twice and ready on its third check.
C2_Witness ==
    /\ outcome = "Ready" /\ firstReady = 3 /\ checks = 3

\* C3: a wait is Ready only on a check whose command exited with status zero
\* and whose output satisfies the readiness predicate.
C3_ReadyOnlyOnSuccess ==
    outcome = "Ready" => (last.spawned /\ last.success /\ last.matched)

\* The workflow steps that follow each wait, and the messages of success.
Following(w) ==
    CASE w = "verify_cluster_setup" -> {"install_helm", "final verification"}
      [] w = "install_argocd"       -> {"setup_port_forwarding", "get_service_urls"}
      [] w = "deploy_argocd_apps"   -> {"deploy_sample_apps", "get_service_urls"}
      [] w = "deploy_sample_apps"   -> {"get_service_urls"}
      [] w = "deploy_stack"         -> {"apply observability-ingress.yaml",
                                        "ingress check", "setup_hosts_file"}
      [] w = "setup_ingress"        -> {"ingress check", "setup_hosts_file",
                                        "apply observability-ingress.yaml"}

SuccessMessages ==
    {"All nodes are ready!", "Kind cluster setup completed successfully!",
     "ArgoCD installed successfully", "ArgoCD deployed successfully!",
     "ServiceMonitor CRD is available",
     "Observability Stack Deployment Completed Successfully!",
     "Observability stack deployment complete", "Ingress Access Information"}

\* C4: once a wait has timed out, the workflow starts none of the steps that
\* follow it, prints no message of success and exits with a non-zero status.
C4_TimedOutFailsWorkflow ==
    \A i \in 1..Len(history) :
        history[i].outcome = "TimedOut" =>
            /\ ran \cap Following(history[i].wait) = {}
            /\ printed \cap SuccessMessages = {}
            /\ exit # 0

\* C5 as stated: a first check that cannot be run at all ends the wait as
\* Fatal at once, after one invocation and no sleep.
C5_FirstErrIsFatal ==
    (wait # "none" /\ checks = 1 /\ ~last.spawned) =>
        (outcome = "Fatal" /\ pc = "after" /\ sleeps = 0)

\* C5 as amended: a first check that cannot be run at all is absorbed as one
\* failed attempt: the counter is 1, the wait is still polling and goes on to
\* sleep and check again, the process has not exited, and no wait is Fatal.
C5_FirstErrIsRetried ==
    /\ (wait # "none" /\ checks = 1 /\ ~last.spawned) =>
          /\ outcome = "Polling"
          /\ attempt = 1
          /\ pc \in {"sleep", "check"}
          /\ exit = Running
    /\ outcome # "Fatal"

\* C5 witness: the first check could not be run and, a sleep later, the loop
\* is about to check again.
C5_Witness ==
    /\ wait = "verify_cluster_setup" /\ checks = 1 /\ ~last.spawned
    /\ pc = "check" /\ sleeps = 1

\* C6: a check that fails transiently while attempts remain does not end the
\* wait nor the process: the loop is still polling after it.
C6_TransientIsRetried ==
    [][(/\ pc = "check"
        /\ checks' = checks + 1
        /\ TransientFailure(last')
        /\ checks' < max_attempts(wait))
       => (outcome' = "Polling" /\ pc' \in {"sleep", "check"} /\ exit' = Running)]_vars

\* C7: a wait that timed out after N checks has slept exactly N-1 times.
C7_TimedOutSleeps ==
    outcome = "TimedOut" => sleeps = checks - 1

\* C8 as stated: no sleep precedes the first check, and a wait that is Ready
\* on its k-th check has slept exactly k-1 times.
C8_NoSleepBeforeFirstCheck ==
    /\ (wait # "none" /\ checks = 0) => sleeps = 0
    /\ outcome = "Ready" => sleeps = checks - 1

\* C8 as amended: the loops of verify_cluster_setup, install_argocd,
\* deploy_argocd_apps and deploy_sample_apps check first and have slept k-1
\* times when they leave as ready on check k; the Traefik loops of
\* deploy_stack and setup_ingress sleep before every check, the first
\* included, and have slept k times when they leave as ready on check k.
C8_SleepsWhenReady ==
    LET before == IF wait \in {"deploy_stack", "setup_ingress"} THEN 1 ELSE 0
    IN  /\ (pc = "check" /\ checks = 0) => sleeps = before
        /\ outcome = "Ready" => sleeps = checks - 1 + before

\* C8 witnesses: not ready, not ready, ready with two sleeps, and the same
\* in a Traefik loop with three.
C8_Witness ==
    \/ wait = "deploy_sample_apps" /\ outcome = "Ready" /\ checks = 3 /\ sleeps = 2
    \/ wait = "setup_ingress" /\ outcome = "Ready" /\ checks = 3 /\ sleeps = 3

\* C9: the counter never exceeds the budget, and from the instant the loop
\* was ready or the counter reached the budget the loop neither checks nor
\* sleeps again.
C9_StopsAtOnce ==
    /\ [](wait # "none" => attempt <= max_attempts(wait))
    /\ [][(/\ wait # "none" /\ wait' = wait
           /\ (outcome = "Ready" \/ attempt = max_attempts(wait)))
          => (checks' = checks /\ sleeps' = sleeps)]_vars

\* The transitions of a wait, with Polling(k) the wait that has made k checks.
WaitTransition ==
    \/ /\ outcome = "Polling" /\ outcome' = "Polling"
       /\ \/ checks' = checks
          \/ checks' = checks + 1 /\ checks < max_attempts(wait)
    \/ outcome = "Polling" /\ outcome' = "Ready"
    \/ outcome = "Polling" /\ outcome' = "TimedOut" /\ checks' = max_attempts(wait)
    \/ outcome = "Polling" /\ outcome' = "Fatal"
    \/ Ended /\ outcome' = outcome /\ checks' = checks

\* C10: every wait makes at most max_attempts checks, moves only along the
\* transitions above and, when every check and sleep returns, ends as Ready,
\* TimedOut or Fatal.
C10_Terminates ==
    /\ [](wait # "none" => checks <= max_attempts(wait))
    /\ [][(wait # "none" /\ wait' = wait) => WaitTransition]_vars
    /\ (outcome = "Polling") ~> Ended

\* C10 witness: a wait that used its whole budget of 60 checks.
C10_Witness ==
    /\ wait = "deploy_argocd_apps" /\ outcome = "TimedOut" /\ checks = 60

\* C11: the checks of a wait never overlap: a check is invoked only while the
\* wait is polling and every earlier check of it has returned and been
\* evaluated (the counter equals the number of checks made); and two waits
\* of one process are never in progress at once: every earlier wait has
\* reached Ready or TimedOut, and in deploy_observability_stack the CRD wait
\* has done so before the first check of the sample-apps wait.
C11_OneCheckAtATime ==
    /\ [](/\ outcome = "Polling" => attempt = checks
          /\ \A i \in DOMAIN history :
                /\ history[i].outcome \in {"Ready", "TimedOut"}
                /\ outcome = "Polling" => history[i].wait # wait
          /\ wait = "deploy_sample_apps" =>
                /\ Len(history) >= 1
                /\ history[1].wait = "deploy_argocd_apps"
                /\ history[1].outcome \in {"Ready", "TimedOut"})
    /\ [][checks' = checks + 1 =>
            /\ pc = "check" /\ outcome = "Polling" /\ attempt = checks]_vars

\* C11 witness: the sample-apps wait, polling after its second check, with
\* the CRD wait finished.
C11_Witness ==
    /\ wait = "deploy_sample_apps" /\ outcome = "Polling" /\ checks = 2
    /\ Len(history) = 1 /\ history[1].wait = "deploy_argocd_apps"

\* C12: each wait is independent: its counter starts fresh when the wait is
\* entered, whatever an earlier wait of the process consumed; every wait,
\* first or later, has its own whole budget (it ends as TimedOut after
\* exactly max_attempts checks and never makes more); and a step of a wait
\* changes nothing of the process but the wait's own counters and records:
\* not the environment, not the steps run, not the exit status, not the
\* record of an earlier wait.
C12_Independent ==
    /\ [][wait' # wait =>
            /\ attempt' = 0 /\ checks' = 0 /\ sleeps' = 0
            /\ firstReady' = 0 /\ outcome' = "Polling"]_vars
    /\ [](\A i \in DOMAIN history :
            /\ history[i].checks <= max_attempts(history[i].wait)
            /\ history[i].outcome = "TimedOut" =>
                  history[i].checks = max_attempts(history[i].wait))
    /\ [][(pc = "check" \/ pc = "sleep") =>
            /\ env' = env /\ calls' = calls /\ ran' = ran
            /\ printed' = printed /\ exit' = exit /\ prog' = prog
            /\ (\A i \in DOMAIN history : history'[i] = history[i])]_vars

\* C12 witness: the sample-apps wait used its whole budget of 30 checks
\* after the CRD wait had consumed three attempts.
C12_Witness ==
    /\ wait = "deploy_sample_apps" /\ outcome = "TimedOut" /\ checks = 30
    /\ Len(history) = 2 /\ history[1].checks = 3

\* C13 as stated: a wait, in progress or ended, has only invoked its check
\* and slept: it has printed no line and no other command has been run.
C13_OnlyCheckAndSleep ==
    wait # "none" => (progress_lines = 0 /\ "kubectl get nodes" \notin ran)

\* C13, amended: besides invoking its check and sleeping, a wait prints
\* progress lines (one after every failed attempt in verify_cluster_setup,
\* install_argocd and the sample-apps wait; one after every failed attempt
\* but the last in the CRD wait; one every 12th resp. 6th failed attempt in
\* the Traefik waits); while it is in progress no other command is run; and
\* verify_cluster_setup alone runs one more command, `kubectl get nodes`,
\* when it ends, as Ready and as TimedOut.
C13_ChecksSleepsAndProgressLines ==
    /\ [](/\ wait \in {"verify_cluster_setup", "install_argocd",
                       "deploy_sample_apps"} => progress_lines = attempt
          /\ wait = "deploy_argocd_apps" =>
                progress_lines = IF attempt < 60 THEN attempt ELSE 59
          /\ wait = "deploy_stack" => progress_lines = attempt \div 12
          /\ wait = "setup_ingress" => progress_lines = attempt \div 6
          /\ "kubectl get nodes" \in ran <=>
                /\ prog = "setup_kind_cluster"
                /\ Len(history) = 1
                /\ pc # "after")
    /\ [][(pc = "check" \/ pc = "sleep") => (ran' = ran /\ calls' = calls)]_vars

\* C13 witness: verify_cluster_setup timed out, has printed its 30 progress
\* lines and has run `kubectl get nodes`.
C13_Witness ==
    /\ wait = "verify_cluster_setup" /\ outcome = "TimedOut"
    /\ progress_lines = 30 /\ "kubectl get nodes" \in ran

\* C15: k8s_obs deploy_stack applies observability-ingress.yaml, and prints
\* 'Observability stack deployment complete', only after a Traefik check
\* succeeded with a Running pod: never after the 60 attempts were used up.
C15_IngressOnlyAfterTraefikReady ==
    \A i \in DOMAIN history :
        (/\ history[i].wait = "deploy_stack"
         /\ \/ "apply observability-ingress.yaml" \in ran
            \/ "Observability stack deployment complete" \in printed)
        => (history[i].outcome = "Ready" /\ history[i].firstReady > 0)

\* C16: verify_cluster_setup reports 'All nodes are ready!' only when the
\* check it has just made listed at least 3 nodes in state Ready; a node in
\* state NotReady is not counted.
C16_ThreeNodesReady ==
    (prog = "setup_kind_cluster" /\ "All nodes are ready!" \in printed)
        => ready_nodes >= 3

\* C17: run_command(command, check) returns Err when the command cannot be
\* spawned; with check true it returns Err exactly when the command exited
\* non-zero; with check false it returns Ok for every exit status.
C17_run_command ==
    \A i \in DOMAIN calls :
        calls[i].by = "run_command" =>
            /\ ~calls[i].spawned => calls[i].result = "Err"
            /\ (calls[i].spawned /\ calls[i].check) =>
                  (calls[i].result = "Err" <=> ~calls[i].success)
            /\ (calls[i].spawned /\ ~calls[i].check) => calls[i].result = "Ok"

\* C17 witness: install_helm reached `helm version`, run with check true,
\* which exited non-zero and gave Err, after `tar`, run with check false,
\* which exited non-zero and gave Ok.
C17_Witness ==
    /\ Len(calls) = 5
    /\ calls[4].cmd = "tar -xzf helm.tar.gz" /\ ~calls[4].check
    /\ calls[4].spawned /\ ~calls[4].success /\ calls[4].result = "Ok"
    /\ calls[5].cmd = "helm version" /\ calls[5].check
    /\ calls[5].spawned /\ ~calls[5].success /\ calls[5].result = "Err"

\* A command of check_prerequisites did not succeed: it could not be run or
\* it exited non-zero.
Unsuccessful(c) == ~(c.spawned /\ c.success)

\* C18: deploy_argocd: when `kubectl version --client`, `helm version` or
\* `kubectl get nodes` does not succeed, check_prerequisites returns false:
\* the process ends with status 1 and has run no helm command and no
\* port-forward.
C18_PrerequisitesStop ==
    (prog = "deploy_argocd" /\ \E i \in DOMAIN calls : Unsuccessful(calls[i]))
        => /\ pc = "done" /\ exit = 1
           /\ "helm repo add" \notin ran
           /\ "setup_port_forwarding" \notin ran

\* C19: k8s_obs check_prerequisites fails with 'Missing prerequisite' when a
\* `where <tool>` lookup does not succeed, prints 'All prerequisites are
\* satisfied' only when all three lookups succeeded, and dev_setup does not
\* reach setup_cluster with a tool missing.
C19_MissingToolStops ==
    prog = "k8s_obs dev-setup" =>
        /\ (\E i \in DOMAIN calls : Unsuccessful(calls[i])) =>
              /\ "Missing prerequisite" \in printed
              /\ pc = "done" /\ exit = 1
              /\ "setup_cluster" \notin ran
        /\ "All prerequisites are satisfied" \in printed =>
              /\ Len(calls) = 3
              /\ \A i \in DOMAIN calls : ~Unsuccessful(calls[i])

\* The installers of install_helm that were run, as indices into calls.
InstallerCalls == {i \in DOMAIN calls : i <= Len(install_commands)}

\* C20: install_helm stops at the first installer whose command succeeds,
\* downloads Helm directly exactly when all three installers failed, and
\* prints 'Helm installed successfully' only after an installer exited
\* with status 0 or `helm version` succeeded on the downloaded binary.
C20_HelmInstalledOnSuccess ==
    prog = "setup_kind_cluster" =>
        /\ \A i \in InstallerCalls :
              ~Unsuccessful(calls[i]) => i = Len(calls)
        /\ "download helm" \in ran <=>
              /\ Len(calls) >= 3
              /\ \A i \in InstallerCalls : Unsuccessful(calls[i])
        /\ "Helm installed successfully" \in printed =>
              \E i \in DOMAIN calls : ~Unsuccessful(calls[i])

\* The four phases of cleanup, in the order of cleanup().
Phases == <<"uninstall_helm_releases", "remove_kubernetes_resources",
            "remove_kind_cluster", "remove_local_files">>

\* C21: cleanup does nothing destructive without confirmation: unless the
\* line read, trimmed and lower-cased, is "y", no external command has been
\* run and no phase started (no helm uninstall, no namespace, cluster or
\* kubectl config deletion, no file removal); and once such a line has been
\* read, cleanup has printed that it was cancelled and has returned Ok.
C21_NothingWithoutConfirmation ==
    (prog = "cleanup" /\ to_lowercase(trim(input)) # <<"y">>) =>
        /\ commands = 0
        /\ \A i \in DOMAIN Phases : Phases[i] \notin ran
        /\ "Cleanup completed successfully!" \notin printed
        /\ "read_line" \in ran =>
              /\ pc = "done" /\ exit = 0
              /\ "Cleanup cancelled" \in printed

\* C21 witness: the answer "yn" and the line end were read, and cleanup was
\* cancelled.
C21_Witness ==
    /\ prog = "cleanup" /\ input = <<"y", "n", "\n">>
    /\ pc = "done" /\ exit = 0 /\ "Cleanup cancelled" \in printed

\* The external commands of the first n phases.
CommandsOf(n) == CASE n = 0 -> 0 [] n = 1 -> 5 [] n = 2 -> 8 [] OTHER -> 12

\* C22: after confirmation cleanup runs its four phases in the fixed order;
\* whatever external commands fail, every command of every phase started
\* is run and the next phase follows; cleanup ends with an error only in
\* remove_local_files; and 'Cleanup completed successfully!' is printed
\* whenever the local removal succeeded, however many commands failed.
C22_PhasesInOrder ==
    prog = "cleanup" =>
        /\ \E n \in 0..4 :
              /\ \A i \in 1..4 : Phases[i] \in ran <=> i <= n
              /\ pc # "done" => (n < 4 /\ (n > 0 => pc = Phases[n + 1]))
              /\ commands = CommandsOf(n)
              /\ (pc = "done" /\ to_lowercase(trim(input)) = <<"y">>) => n = 4
        /\ (pc = "done" /\ exit = 1 /\ "read_line" \in ran) =>
              /\ "remove_local_files" \in ran
              /\ "Cleanup completed successfully!" \notin printed
        /\ (pc = "done" /\ exit = 0 /\ to_lowercase(trim(input)) = <<"y">>) =>
              "Cleanup completed successfully!" \in printed

\* C22 witness: all twelve external commands failed and 'Cleanup completed
\* successfully!' was printed.
C22_Witness ==
    /\ prog = "cleanup" /\ commands = 12 /\ failed = 12
    /\ pc = "done" /\ exit = 0
    /\ "Cleanup completed successfully!" \in printed

\* The four steps of quick_start, in the order of the source.
StepNames == <<"setup_cluster", "deploy_argocd", "deploy_stack",
               "deploy_sample_apps">>

\* C23: quick_start runs setup_cluster, deploy_argocd, deploy_stack and
\* deploy_sample_apps in that order; a step is started only after all the
\* steps before it returned Ok; the first step that returns an error is the
\* last one and the process ends with status 1; and 'Quick start complete!'
\* is printed only if all four steps returned Ok.
C23_QuickStartInOrder ==
    prog = "k8s_obs quick-start" =>
        /\ Len(calls) <= 4
        /\ \A i \in DOMAIN calls :
              /\ calls[i].cmd = StepNames[i]
              /\ i < Len(calls) => calls[i].result = "Ok"
              /\ calls[i].result = "Err" => (pc = "done" /\ exit = 1)
        /\ "setup_cluster" \in ran => Len(calls) >= 1
        /\ "deploy_argocd" \in ran => Len(calls) >= 2
        /\ wait = "deploy_stack" =>
              (Len(calls) >= 2 /\ calls[1].result = "Ok" /\ calls[2].result = "Ok")
        /\ "deploy_sample_apps" \in ran =>
              (Len(calls) = 4 /\ calls[3].result = "Ok")
        /\ "Quick start complete!" \in printed =>
              (Len(calls) = 4 /\ \A i \in 1..4 : calls[i].result = "Ok")
        /\ (pc = "done" /\ exit = 0) => "Quick start complete!" \in printed

\* C23 witness: quick_start stopped at deploy_sample_apps, which returned
\* an error after the three steps before it had returned Ok.
C23_Witness ==
    /\ prog = "k8s_obs quick-start" /\ Len(calls) = 4
    /\ calls[4].cmd = "deploy_sample_apps" /\ calls[4].result = "Err"
    /\ pc = "done" /\ exit = 1 /\ "Quick start complete!" \notin printed

====
